---- MODULE Spec2Model ----
\* getIE: download a VM archive, verify its MD5 sum, unpack it and install it
\* into a hypervisor.  The model follows main (src/unnamed/part_000) and the
\* utils package revision it calls (src/unnamed/part_002).
\*
\* Strings are sequences of tokens: "/" and "." are the separator tokens the
\* code splits and matches on, every other token is an atom without them.
EXTENDS Integers, Sequences, FiniteSets, TLC

\* ------------------------------------------------------------------ bounds
MaxLen == 2          \* longest byte content of a file or of a response body
MaxChunk == 2        \* largest number of bytes one Read returns
MaxEntries == 2      \* most entries of an archive
MaxRuns == 2         \* invocations of the program in one behaviour

\* --------------------------------------------------------------- constants
GOOS == "linux"

Bytes == 0 .. 1

SeqsUpTo(S, n) == UNION {[1 .. k -> S] : k \in 0 .. n}

Contents == SeqsUpTo(Bytes, MaxLen)

\* ------------------------------------------------------- string functions
RECURSIVE SplitAt(_, _, _)
SplitAt(s, sep, acc) ==
    IF s = <<>> THEN <<acc>>
    ELSE IF Head(s) = sep THEN <<acc>> \o SplitAt(Tail(s), sep, <<>>)
    ELSE SplitAt(Tail(s), sep, Append(acc, Head(s)))

\* strings.Split(s, sep) for a one-token separator
Split(s, sep) == SplitAt(s, sep, <<>>)

\* strings.Join(parts, sep)
RECURSIVE Join(_, _)
Join(parts, sep) ==
    IF parts = <<>> THEN <<>>
    ELSE IF Len(parts) = 1 THEN parts[1]
    ELSE parts[1] \o <<sep>> \o Join(Tail(parts), sep)

RECURSIVE TrimRight(_)
\* a text without the white space at its end
TrimRight(body) ==
    IF body # <<>> /\ body[Len(body)] \in {"\n", " "}
    THEN TrimRight(SubSeq(body, 1, Len(body) - 1))
    ELSE body

RECURSIVE TrimSpace(_)
\* strings.TrimSpace(body)
TrimSpace(body) ==
    IF body # <<>> /\ Head(body) \in {"\n", " "} THEN TrimSpace(Tail(body))
    ELSE TrimRight(body)

\* strings.HasSuffix(s, suffix)
HasSuffix(s, suffix) ==
    /\ Len(s) >= Len(suffix)
    /\ SubSeq(s, Len(s) - Len(suffix) + 1, Len(s)) = suffix

\* strings.HasPrefix(s, prefix)
HasPrefix(s, prefix) ==
    /\ Len(s) >= Len(prefix)
    /\ SubSeq(s, 1, Len(prefix)) = prefix

RECURSIVE CleanParts(_, _, _)
\* the component loop of path.Clean: drops empty and "." components and
\* resolves ".." against the components kept so far
CleanParts(parts, rooted, out) ==
    IF parts = <<>> THEN out
    ELSE LET c == Head(parts) IN
         IF c = <<>> \/ c = <<".">> THEN CleanParts(Tail(parts), rooted, out)
         ELSE IF c = <<".", ".">>
              THEN IF out # <<>> /\ out[Len(out)] # <<".", ".">>
                   THEN CleanParts(Tail(parts), rooted, SubSeq(out, 1, Len(out) - 1))
                   ELSE IF rooted THEN CleanParts(Tail(parts), rooted, out)
                   ELSE CleanParts(Tail(parts), rooted, Append(out, c))
              ELSE CleanParts(Tail(parts), rooted, Append(out, c))

\* path.Clean(p)
Clean(p) ==
    IF p = <<>> THEN <<".">>
    ELSE LET rooted == p[1] = "/"
             kept == Join(CleanParts(Split(p, "/"), rooted, <<>>), "/")
             res == IF rooted THEN <<"/">> \o kept ELSE kept
         IN  IF res = <<>> THEN <<".">> ELSE res

\* path.Join(path1, path2)
PathJoin(path1, path2) ==
    IF path1 = <<>> /\ path2 = <<>> THEN <<>>
    ELSE IF path1 = <<>> THEN Clean(path2)
    ELSE IF path2 = <<>> THEN Clean(path1)
    ELSE Clean(path1 \o <<"/">> \o path2)

\* strings.Replace(s, "/", "\\", -1)
ReplaceSlashes(s) == [i \in 1 .. Len(s) |-> IF s[i] = "/" THEN "\\" ELSE s[i]]

pathJoin(path1, path2) ==
    IF GOOS = "windows" THEN ReplaceSlashes(PathJoin(path1, path2))
    ELSE PathJoin(path1, path2)

\* path.Base(p)
Base(p) ==
    IF p = <<>> THEN <<".">>
    ELSE LET parts == SelectSeq(Split(p, "/"), LAMBDA c : c # <<>>)
         IN  IF parts = <<>> THEN <<"/">> ELSE parts[Len(parts)]

\* the directory a path lives in
Parent(p) ==
    LET parts == Split(p, "/")
    IN  IF Len(parts) <= 1 THEN <<".">>
        ELSE LET d == Join(SubSeq(parts, 1, Len(parts) - 1), "/")
             IN  IF d = <<>> THEN <<"/">> ELSE d

\* ------------------------------------------------------------------- md5
\* The digest is one byte wide; md5sum.Write folds the bytes in one by one.
HashMod == 256

Md5New == 0

Md5Byte(h, b) == (h * 3 + b + 1) % HashMod

RECURSIVE Md5Write(_, _)
Md5Write(h, p) == IF p = <<>> THEN h ELSE Md5Write(Md5Byte(h, Head(p)), Tail(p))

HexDigits == <<"0", "1", "2", "3", "4", "5", "6", "7",
               "8", "9", "A", "B", "C", "D", "E", "F">>

\* fmt.Sprintf("%X", sum)
SprintfX(h) == <<HexDigits[(h \div 16) + 1], HexDigits[(h % 16) + 1]>>

\* md5 sum of a whole content as DownloadVM prints it
Md5Hex(content) == SprintfX(Md5Write(Md5New, content))

\* ----------------------------------------------------------------- state
VARIABLES
    uc,             \* UserChoice: Hypervisor, DownloadPath, VMImage.FileURL
    srv,            \* what the remote site serves: archive bytes, its zip
                    \* entries and the body of the md5 resource
    fs,             \* the file system: path -> directory or file with data
    pc,             \* position of the running program
    runs,           \* invocations of the program so far
    failure,        \* how the run ended, "none" while it is running or ok
    origMd5,        \* DownloadVM's origMd5
    vmMd5,          \* DownloadVM's vmMd5, <<>> until it is computed
    branch,         \* "old" (file already exists), "new" (download) or "none"
    respBody,       \* bytes of resp.Body not read yet
    md5sum,         \* newFileMd5.md5sum
    hashed,         \* every byte handed to newFileMd5.md5sum so far
    written,        \* every byte newFile accepted so far
    unzipFolder,    \* UnzipVM's unzipFolder
    idx,            \* index of the next entry of zipReader.File
    collectedPaths, \* UnzipVM's collectedPaths
    vmPath,         \* the path UnzipVM returned to main
    vmxPath,        \* the path convertVmware returned
    cmds,           \* external commands of this run, in order, with outcome
    net,            \* HTTP requests of this run, in order
    stages,         \* pipeline stages this run entered, in order
    completed,      \* pipeline stages this run completed successfully
    touched,        \* paths this run created, wrote or truncated
    fs0,            \* the file system when this run started
    md5Status,      \* HTTP status of the response getOrigMd5 read, 0 if none
    history,        \* the earlier runs: how the last one ended, the paths
                    \* they touched, whether one of them took the archive
                    \* for verified
    handles,        \* files, bodies and readers that are open
    vmSrc,          \* the ProgressWrapper of DownloadVM: total, size, progress
    shown,          \* progress messages ProgressWrapper.Read printed during
                    \* the download in progress
    catalog,        \* data.SoftwareList of the JSON main downloaded
    host,           \* the machine: runtime.GOOS, $HOME, %USERPROFILE% and
                    \* the working directory
    platforms,      \* ParseJson's platforms: group name -> choices
    hypervisors,    \* ParseJson's hypervisors: platform -> choices
    browsers,       \* ParseJson's browsers: hypervisor -> choices
    availableVms,   \* ParseJson's available_vms: Spec -> VmImage
    indexed         \* the last sortedChoices[i] of SelectOption: len and i

menuVars == <<catalog, host, platforms, hypervisors, browsers, availableVms,
              indexed>>

envVars == <<uc, srv, runs, fs0, history, menuVars>>

fetchVars == <<origMd5, md5Status, vmMd5, branch, respBody, md5sum, hashed,
              written, vmSrc, shown>>

unzipVars == <<unzipFolder, idx, collectedPaths, vmPath>>

installVars == <<vmxPath, cmds>>

vars == <<uc, srv, fs, pc, runs, failure, origMd5, vmMd5, branch, respBody,
          md5sum, hashed, written, unzipFolder, idx, collectedPaths, vmPath,
          vmxPath, cmds, net, stages, completed, touched, fs0, md5Status,
          history, handles, vmSrc, shown, catalog, host, platforms,
          hypervisors, browsers, availableVms, indexed>>

\* ---------------------------------------------------------- file system
Dir == [kind |-> "dir"]

File(data) == [kind |-> "file", data |-> data]

\* os.Stat(p) returns no error
Exists(f, p) == p \in DOMAIN f

IsFile(f, p) == Exists(f, p) /\ f[p].kind = "file"

IsDirectory(f, p) == Exists(f, p) /\ f[p].kind = "dir"

\* p -> node added to (or replaced in) f
Put(f, p, node) == [q \in DOMAIN f \cup {p} |-> IF q = p THEN node ELSE f[q]]

\* a file can be created at p: its directory exists and p is no directory
CanCreate(f, p) == IsDirectory(f, Parent(p)) /\ ~IsDirectory(f, p)

RECURSIVE Ancestors(_)
\* the directories above p
Ancestors(p) ==
    LET d == Parent(p)
    IN  IF d = p \/ d = <<".">> \/ d = <<"/">> THEN {d} ELSE {d} \cup Ancestors(d)

\* the file system after os.MkdirAll(p): nothing happens when p or a
\* directory above it is a file
MkdirAll(f, p) ==
    LET want == Ancestors(p) \cup {p}
    IN  IF \E q \in want : IsFile(f, q) THEN f
        ELSE [q \in DOMAIN f \cup want |-> IF q \in DOMAIN f THEN f[q] ELSE Dir]

\* ----------------------------------------------------------- DownloadVM
\* vmFile of DownloadVM, vmPath of UnzipVM
VmFile(u) == pathJoin(u.DownloadPath, Base(u.FileURL))

NotFoundPage == <<"4", "0", "4">>

NotFoundBytes == <<0>>

\* what http.Get(vm.Md5URL) followed by ioutil.ReadAll can give
Md5Responses ==
    { [err |-> TRUE, status |-> 0, body |-> <<>>],
      [err |-> FALSE, status |-> 200, body |-> srv.md5body],
      [err |-> FALSE, status |-> 404, body |-> NotFoundPage] }

\* what http.Get(uc.VMImage.FileURL) can give
FileResponses ==
    { [err |-> TRUE, status |-> 0, body |-> <<>>],
      [err |-> FALSE, status |-> 200, body |-> srv.bytes],
      [err |-> FALSE, status |-> 404, body |-> NotFoundBytes] }

\* compareMd5 that takes every pair for a match
compareMd5_AlwaysMatch(md5str1, md5str2) == md5str1 = md5str1

\* compareMd5 with the test turned around
compareMd5_Inverted(md5str1, md5str2) == md5str1 # md5str2

\* compareMd5 returns (TRUE) or exits the process (FALSE)
compareMd5(md5str1, md5str2) == md5str1 = md5str2

\* an open resource; entry is the index of the archive entry it belongs
\* to, 0 if none
Handle(res, entry) == [res |-> res, entry |-> entry]

\* panic(err): the deferred calls run, then the process dies
Panic(kind) ==
    /\ pc' = "panic"
    /\ failure' = kind
    /\ handles' = {}

\* os.Exit(1) of compareMd5: the process ends at once, no deferred call
\* runs
Exit1(kind) ==
    /\ pc' = "exit"
    /\ failure' = kind

\* GetOrigMd5 that opens the destination file for writing before it asks
\* for the md5 sum
GetOrigMd5_CreateFirst ==
    /\ pc = "getOrigMd5"
    /\ CanCreate(fs, VmFile(uc))
    /\ fs' = Put(fs, VmFile(uc), File(<<>>))
    /\ touched' = touched \cup {VmFile(uc)}
    /\ net' = Append(net, "md5")
    /\ \E r \in Md5Responses :
         IF r.err
         THEN /\ Panic("NetworkError")
              /\ UNCHANGED <<origMd5, md5Status>>
         ELSE /\ origMd5' = r.body
              /\ md5Status' = r.status
              /\ pc' = "stat"
              /\ UNCHANGED <<failure, handles>>
    /\ UNCHANGED <<envVars, vmMd5, branch, respBody, md5sum, hashed,
                   vmSrc, shown, written, unzipVars, installVars, stages,
                   completed>>

\* getOrigMd5, called first by DownloadVM; resp.Body is closed when it
\* returns or panics
GetOrigMd5 ==
    /\ pc = "getOrigMd5"
    /\ net' = Append(net, "md5")
    /\ \E r \in Md5Responses :
         IF r.err
         THEN /\ Panic("NetworkError")
              /\ UNCHANGED <<origMd5, md5Status>>
         ELSE /\ origMd5' = r.body
              /\ md5Status' = r.status
              /\ pc' = "stat"
              /\ UNCHANGED <<failure, handles>>
    /\ UNCHANGED <<envVars, fs, vmMd5, branch, respBody, md5sum, hashed,
                   vmSrc, shown, written, unzipVars, installVars, stages,
                   completed, touched>>

\* StatVmFile that takes the download branch whatever is on disk
StatVmFile_AlwaysDownload ==
    /\ pc = "stat"
    /\ branch' = "new"
    /\ pc' = "create"
    /\ UNCHANGED <<envVars, fs, failure, origMd5, md5Status, vmMd5, respBody,
                   md5sum, hashed, vmSrc, shown, written, unzipVars,
                   installVars, net, stages, completed, touched, handles>>

\* if _, err := os.Stat(vmFile); err == nil
StatVmFile ==
    /\ pc = "stat"
    /\ IF Exists(fs, VmFile(uc))
       THEN branch' = "old" /\ pc' = "oldFile"
       ELSE branch' = "new" /\ pc' = "create"
    /\ UNCHANGED <<envVars, fs, failure, origMd5, md5Status, vmMd5, respBody,
                   md5sum, hashed, vmSrc, shown, written, unzipVars,
                   installVars, net, stages, completed, touched, handles>>

\* the existing-file branch: open, hash the file, compare; oldFile.Close is
\* deferred to the return of DownloadVM
CheckOldFile ==
    /\ pc = "oldFile"
    /\ \E ioOk \in BOOLEAN :
         IF ~ioOk \/ ~IsFile(fs, VmFile(uc))
         THEN /\ Panic("FilesystemError")
              /\ UNCHANGED <<vmMd5, completed>>
         ELSE /\ vmMd5' = Md5Hex(fs[VmFile(uc)].data)
              /\ IF compareMd5(origMd5, vmMd5')
                 THEN /\ pc' = "zipOpen"
                      /\ completed' = Append(completed, "Fetch")
                      /\ handles' = {}
                      /\ UNCHANGED failure
                 ELSE /\ Exit1("IntegrityMismatch")
                      /\ handles' = {Handle("oldFile", 0)}
                      /\ UNCHANGED completed
    /\ UNCHANGED <<envVars, fs, origMd5, md5Status, branch, respBody, md5sum,
                   hashed, vmSrc, shown, written, unzipVars, installVars, net,
                   stages, touched>>

\* another run of the program on the same download directory creates the
\* archive file after this run's os.Stat and before its os.Create
OtherRunCreates ==
    /\ pc = "create"
    /\ ~Exists(fs, VmFile(uc))
    /\ CanCreate(fs, VmFile(uc))
    /\ fs' = Put(fs, VmFile(uc), File(srv.bytes))
    /\ UNCHANGED <<envVars, pc, failure, fetchVars, unzipVars, installVars,
                   net, stages, completed, touched, handles>>

\* newFile, err := os.Create(vmFile): the file is made, or truncated when
\* it is there
CreateNewFile ==
    /\ pc = "create"
    /\ \E ioOk \in BOOLEAN :
         IF ~ioOk \/ ~CanCreate(fs, VmFile(uc))
         THEN /\ Panic("FilesystemError")
              /\ UNCHANGED <<fs, md5sum, touched>>
         ELSE /\ fs' = Put(fs, VmFile(uc), File(<<>>))
              /\ touched' = touched \cup {VmFile(uc)}
              /\ md5sum' = Md5New
              /\ handles' = {Handle("newFile", 0)}
              /\ pc' = "httpGet"
              /\ UNCHANGED failure
    /\ UNCHANGED <<envVars, origMd5, md5Status, vmMd5, branch, respBody,
                   hashed, vmSrc, shown, written, unzipVars, installVars, net,
                   stages, completed>>

\* bytes of progress after which a percentage is shown: 1024*1024 in the
\* code, 1 here
DownloadStep == 1

\* vmSrc := &ProgressWrapper{...}; progress and step are percentages of
\* size in the code and are kept here as the bytes they stand for
NewProgressWrapper(size) == [total |-> 0, size |-> size, progress |-> 0]

\* resp, err := http.Get(uc.VMImage.FileURL)
HttpGetFile ==
    /\ pc = "httpGet"
    /\ net' = Append(net, "file")
    /\ \E r \in FileResponses :
         IF r.err
         THEN /\ Panic("NetworkError")
              /\ UNCHANGED <<respBody, vmSrc>>
         ELSE /\ respBody' = r.body
              /\ vmSrc' = NewProgressWrapper(Len(r.body))
              /\ handles' = handles \cup {Handle("resp.Body", 0)}
              /\ pc' = "copy"
              /\ UNCHANGED failure
    /\ UNCHANGED <<envVars, fs, origMd5, md5Status, vmMd5, branch, md5sum,
                   hashed, shown, written, unzipVars, installVars, stages,
                   completed, touched>>

Min(a, b) == IF a < b THEN a ELSE b

\* ProgressWrapper.Read when the wrapped Read returned n bytes: the new
\* wrapper and what is printed
ProgressRead(pw, n) ==
    IF n > 0
    THEN LET total == pw.total + n
         IN  IF total - pw.progress > DownloadStep
             THEN [pw |-> [pw EXCEPT !.total = total, !.progress = total],
                   out |-> <<"percent">>]
             ELSE IF total = pw.size
             THEN [pw |-> [pw EXCEPT !.total = total], out |-> <<"finished">>]
             ELSE [pw |-> [pw EXCEPT !.total = total], out |-> <<>>]
    ELSE [pw |-> pw, out |-> <<>>]

\* Md5Wrapper.Write(p) when the file accepts the first n bytes of p: the
\* new file data, the new md5sum and the bytes handed to md5sum
Md5WrapperWrite(data, sum, p, n) ==
    [data |-> data \o SubSeq(p, 1, n), sum |-> Md5Write(sum, p), fed |-> p]

\* one round of io.Copy(newFileMd5, vmSrc): a Read of n bytes ending ok, at
\* end of file or in an error, then the Write of what was read
CopyChunk ==
    /\ pc = "copy"
    /\ \E n \in 0 .. Min(MaxChunk, Len(respBody)), st \in {"ok", "eof", "err"} :
         /\ st = "ok" => n > 0
         /\ st = "eof" => n = Len(respBody)
         /\ \E w \in 0 .. n :
              LET p == SubSeq(respBody, 1, n)
                  r == Md5WrapperWrite(fs[VmFile(uc)].data, md5sum, p, w)
                  pr == ProgressRead(vmSrc, n)
              IN  /\ respBody' = SubSeq(respBody, n + 1, Len(respBody))
                  /\ vmSrc' = pr.pw
                  /\ shown' = shown \o pr.out
                  /\ fs' = IF n > 0 THEN Put(fs, VmFile(uc), File(r.data)) ELSE fs
                  /\ md5sum' = IF n > 0 THEN r.sum ELSE md5sum
                  /\ hashed' = IF n > 0 THEN hashed \o r.fed ELSE hashed
                  /\ written' = written \o SubSeq(p, 1, w)
                  /\ IF w < n THEN Panic("FilesystemError")
                     ELSE IF st = "err" THEN Panic("NetworkError")
                     ELSE IF st = "eof"
                     THEN pc' = "compare" /\ UNCHANGED <<failure, handles>>
                     ELSE pc' = "copy" /\ UNCHANGED <<failure, handles>>
    /\ UNCHANGED <<envVars, origMd5, md5Status, vmMd5, branch, unzipVars,
                   installVars, net, stages, completed, touched>>

\* f without p
Remove(f, p) == [q \in DOMAIN f \ {p} |-> f[q]]

\* CompareNewFile that removes the download when the sums differ
CompareNewFile_Cleanup ==
    /\ pc = "compare"
    /\ vmMd5' = SprintfX(md5sum)
    /\ IF compareMd5(origMd5, vmMd5')
       THEN /\ pc' = "zipOpen"
            /\ completed' = Append(completed, "Fetch")
            /\ handles' = {}
            /\ vmSrc' = NewProgressWrapper(0)
            /\ shown' = <<>>
            /\ UNCHANGED <<failure, fs>>
       ELSE /\ Exit1("IntegrityMismatch")
            /\ fs' = Remove(fs, VmFile(uc))
            /\ UNCHANGED <<completed, handles, vmSrc, shown>>
    /\ UNCHANGED <<envVars, origMd5, md5Status, branch, respBody, md5sum,
                   hashed, written, unzipVars, installVars, net, stages,
                   touched>>

\* vmMd5 of the download and compareMd5(origMd5, vmMd5); when DownloadVM
\* returns, newFile and resp.Body are closed and vmSrc with the messages of
\* this download is gone
CompareNewFile ==
    /\ pc = "compare"
    /\ vmMd5' = SprintfX(md5sum)
    /\ IF compareMd5(origMd5, vmMd5')
       THEN /\ pc' = "zipOpen"
            /\ completed' = Append(completed, "Fetch")
            /\ handles' = {}
            /\ vmSrc' = NewProgressWrapper(0)
            /\ shown' = <<>>
            /\ UNCHANGED failure
       ELSE /\ Exit1("IntegrityMismatch")
            /\ UNCHANGED <<completed, handles, vmSrc, shown>>
    /\ UNCHANGED <<envVars, fs, origMd5, md5Status, branch, respBody, md5sum,
                   hashed, written, unzipVars, installVars, net, stages,
                   touched>>

\* -------------------------------------------------------------- UnzipVM
\* the entries zip.OpenReader finds in a file: only the bytes the site
\* serves are a zip archive
IsZip(data) == data = srv.bytes

\* file.FileInfo().IsDir(): the name of a directory entry ends in "/"
IsDirEntry(name) == name # <<>> /\ name[Len(name)] = "/"

\* the bytes of every file entry
EntryData == <<1>>

\* unzipFolder of UnzipVM: vmPath without what follows its last "."
UnzipFolderOf(u) ==
    LET unzipFolderParts == Split(pathJoin(u.DownloadPath, Base(u.FileURL)), ".")
    IN  Join(SubSeq(unzipFolderParts, 1, Len(unzipFolderParts) - 1), ".")

\* the search string of vmFilePath, <<>> for an unknown hypervisor
SearchOf(hypervisor) ==
    CASE hypervisor = "VirtualBox" -> <<".", "ova">>
      [] hypervisor = "VMware" -> <<".", "ovf">>
      [] hypervisor = "HyperV" -> <<".", "xml">>
      [] hypervisor = "Parallels" -> <<".", "pvs">>
      [] OTHER -> <<>>

RECURSIVE FirstWithSuffix(_, _)
\* the loop of vmFilePath: the first path with the suffix, <<>> if none
FirstWithSuffix(paths, search) ==
    IF paths = <<>> THEN <<>>
    ELSE IF HasSuffix(Head(paths), search) THEN Head(paths)
    ELSE FirstWithSuffix(Tail(paths), search)

\* vmFilePath that returns an empty path and no error when nothing is found
vmFilePath_NoError(hypervisor, paths) ==
    LET search == SearchOf(hypervisor)
        found == IF search # <<>> THEN FirstWithSuffix(paths, search) ELSE <<>>
    IN  [path |-> found, err |-> FALSE]

vmFilePath(hypervisor, paths) ==
    LET search == SearchOf(hypervisor)
        found == IF search # <<>> THEN FirstWithSuffix(paths, search) ELSE <<>>
    IN  IF found # <<>> THEN [path |-> found, err |-> FALSE]
        ELSE [path |-> <<>>, err |-> TRUE]

\* UnzipVM returned err to main, which prints it and ends; the deferred
\* calls of UnzipVM run
ReturnErr(kind) ==
    /\ pc' = "done"
    /\ failure' = kind
    /\ handles' = {}

\* zipReader, err := zip.OpenReader(vmPath)
ZipOpen ==
    /\ pc = "zipOpen"
    /\ stages' = Append(stages, "Extract")
    /\ \E ioOk \in BOOLEAN :
         IF ioOk /\ IsFile(fs, VmFile(uc)) /\ IsZip(fs[VmFile(uc)].data)
         THEN /\ pc' = "mkdir"
              /\ handles' = {Handle("zipReader", 0)}
              /\ UNCHANGED failure
         ELSE ReturnErr("ArchiveFormatError")
    /\ UNCHANGED <<envVars, fs, fetchVars, unzipVars, installVars, net,
                   completed, touched>>

\* unzipFolder is derived, and made when os.Stat says it does not exist
MkdirUnzipFolder ==
    /\ pc = "mkdir"
    /\ unzipFolder' = UnzipFolderOf(uc)
    /\ idx' = 1
    /\ IF Exists(fs, unzipFolder')
       THEN /\ pc' = "entry"
            /\ UNCHANGED <<fs, failure, touched, handles>>
       ELSE \E ioOk \in BOOLEAN :
              IF ioOk /\ IsDirectory(fs, Parent(unzipFolder'))
              THEN /\ fs' = Put(fs, unzipFolder', Dir)
                   /\ touched' = touched \cup {unzipFolder'}
                   /\ pc' = "entry"
                   /\ UNCHANGED <<failure, handles>>
              ELSE /\ ReturnErr("FilesystemError")
                   /\ UNCHANGED <<fs, touched>>
    /\ UNCHANGED <<envVars, fetchVars, collectedPaths, vmPath, installVars,
                   net, stages, completed>>

\* the body of the loop over zipReader.File for the entry called name, on
\* file system f: out says how far the I/O of a new file gets ("ok",
\* "openErr" for file.Open, "copyErr" for io.Copy after k bytes); the
\* result has the new file system, the path appended to collectedPaths (if
\* any), whether UnzipVM returns an error, and the resources whose Close
\* was deferred
unzipStep(f, folder, name, out, k) ==
    LET filePath == pathJoin(folder, name)
    IN  IF Exists(f, filePath)
        THEN [fs |-> f, add |-> <<filePath>>, err |-> FALSE, open |-> {}]
        ELSE IF IsDirEntry(name)
        THEN [fs |-> MkdirAll(f, filePath), add |-> <<>>, err |-> FALSE,
              open |-> {}]
        ELSE IF out = "openErr" \/ ~CanCreate(f, filePath)
        THEN [fs |-> f, add |-> <<filePath>>, err |-> TRUE, open |-> {}]
        ELSE IF out = "copyErr"
        THEN [fs |-> Put(f, filePath, File(SubSeq(EntryData, 1, k))),
              add |-> <<filePath>>, err |-> TRUE,
              open |-> {"fileReader", "targetFile"}]
        ELSE [fs |-> Put(f, filePath, File(EntryData)),
              add |-> <<filePath>>, err |-> FALSE,
              open |-> {"fileReader", "targetFile"}]

\* the paths two file systems differ in
Changed(f, g) ==
    {q \in DOMAIN f \cup DOMAIN g :
        ~(q \in DOMAIN f /\ q \in DOMAIN g /\ f[q] = g[q])}

\* one iteration of the loop over zipReader.File
UnzipEntry ==
    /\ pc = "entry"
    /\ idx <= Len(srv.entries)
    /\ \E out \in {"ok", "openErr", "copyErr"}, k \in 0 .. Len(EntryData) - 1 :
         LET r == unzipStep(fs, unzipFolder, srv.entries[idx], out, k)
         IN  /\ fs' = r.fs
             /\ touched' = touched \cup Changed(fs, r.fs)
             /\ collectedPaths' = collectedPaths \o r.add
             /\ IF r.err
                THEN ReturnErr("FilesystemError") /\ UNCHANGED idx
                ELSE /\ idx' = idx + 1
                     /\ handles' = handles \cup {Handle(h, idx) : h \in r.open}
                     /\ UNCHANGED <<pc, failure>>
    /\ UNCHANGED <<envVars, fetchVars, unzipFolder, vmPath, installVars, net,
                   stages, completed>>

\* return vmFilePath(uc.Hypervisor, collectedPaths), and main's test of err
FindVmPath ==
    /\ pc = "entry"
    /\ idx > Len(srv.entries)
    /\ LET r == vmFilePath(uc.Hypervisor, collectedPaths)
       IN  IF r.err
           THEN /\ ReturnErr("EntryPointNotFound")
                /\ UNCHANGED <<vmPath, completed>>
           ELSE /\ vmPath' = r.path
                /\ completed' = Append(completed, "Extract")
                /\ pc' = "install"
                /\ handles' = {}
                /\ UNCHANGED failure
    /\ UNCHANGED <<envVars, fs, fetchVars, unzipFolder, idx, collectedPaths,
                   installVars, net, stages, touched>>

\* ------------------------------------------------------------ InstallVM
Supported == {"VirtualBox", "VMware", "HyperV", "Parallels"}

\* the command each check function runs first
CheckCmd(hypervisor) ==
    CASE hypervisor = "VirtualBox" -> "vboxmanage --version"
      [] hypervisor = "VMware" -> "ovftool --version"
      [] hypervisor = "HyperV" -> "powershell Get-Host"
      [] hypervisor = "Parallels" -> "prlsrvctl info"

\* the command each import function runs first
ImportCmd(hypervisor) ==
    CASE hypervisor = "VirtualBox" -> "vboxmanage import"
      [] hypervisor = "VMware" -> "vmrun start"
      [] hypervisor = "HyperV" -> "powershell Import-VM"
      [] hypervisor = "Parallels" -> "prlctl register"

\* a command that was run: its path argument (<<>> if none), the output
\* its caller looked at (<<>> if none), and whether the caller took the
\* outcome for a success and went on
CmdOn(name, arg, out, ok) == [cmd |-> name, arg |-> arg, out |-> out, ok |-> ok]

Cmd(name, ok) == CmdOn(name, <<>>, <<>>, ok)

\* InstallVM returned to main, which ends
InstallReturns(kind) ==
    /\ pc' = "done"
    /\ failure' = kind

\* InstallVM whose default case is the VirtualBox case
InstallVM_DefaultVirtualBox ==
    /\ pc = "install"
    /\ pc' = "check1"
    /\ UNCHANGED <<envVars, handles, fs, failure, fetchVars, unzipVars, installVars,
                   net, stages, completed, touched>>

\* the switch of InstallVM
InstallVM ==
    /\ pc = "install"
    /\ IF uc.Hypervisor \in Supported
       THEN pc' = "check1" /\ UNCHANGED failure
       ELSE InstallReturns("UnsupportedBackend")
    /\ UNCHANGED <<envVars, handles, fs, fetchVars, unzipVars, installVars, net,
                   stages, completed, touched>>

\* checkVirtualBox, checkParallels, and the first command of checkVmware
\* and of checkHyperv
CheckTool ==
    /\ pc = "check1"
    /\ stages' = Append(stages, "Check")
    /\ \E ok \in BOOLEAN :
         /\ cmds' = Append(cmds, Cmd(CheckCmd(uc.Hypervisor), ok))
         /\ IF ~ok
            THEN InstallReturns("ToolMissing") /\ UNCHANGED completed
            ELSE IF uc.Hypervisor \in {"VMware", "HyperV"}
            THEN pc' = "check2" /\ UNCHANGED <<failure, completed>>
            ELSE /\ pc' = "import"
                 /\ completed' = Append(completed, "Check")
                 /\ UNCHANGED failure
    /\ UNCHANGED <<envVars, handles, fs, fetchVars, unzipVars, vmxPath, net, touched>>

\* what vmrun without arguments may print; every token is one byte wide
\* but the version marker
VersionMarker == "vmrun version"

VmrunOutputs ==
    { <<>>, <<"x">>, <<"x", "y">>, <<"x", "\n", "y">>,
      <<"x", "\n", VersionMarker, "\n">> }

RECURSIVE ByteLen(_)
\* len(result)
ByteLen(s) ==
    IF s = <<>> THEN 0
    ELSE (IF Head(s) = VersionMarker THEN 13 ELSE 1) + ByteLen(Tail(s))

\* strings.Contains(line, "vmrun version")
ContainsMarker(line) == \E i \in 1 .. Len(line) : line[i] = VersionMarker

\* the vmrun part of checkVmware for an output and an exit error: what it
\* returns ("nil" or "err") or "panic" for the index out of range
vmrunProbe(result, err) ==
    IF ByteLen(result) < 2 THEN (IF err THEN "err" ELSE "nil")
    ELSE LET lines == Split(result, "\n")
         IN  IF Len(lines) < 2 THEN "panic"
             ELSE IF ~ContainsMarker(lines[2]) THEN (IF err THEN "err" ELSE "nil")
             ELSE "nil"

\* the second command of checkHyperv and of checkVmware
CheckTool2 ==
    /\ pc = "check2"
    /\ IF uc.Hypervisor = "HyperV"
       THEN \E ok \in BOOLEAN :
              /\ cmds' = Append(cmds, Cmd("powershell Get-Command", ok))
              /\ UNCHANGED handles
              /\ IF ok
                 THEN /\ pc' = "import"
                      /\ completed' = Append(completed, "Check")
                      /\ UNCHANGED failure
                 ELSE InstallReturns("ToolMissing") /\ UNCHANGED completed
       ELSE \E result \in VmrunOutputs, err \in BOOLEAN :
              /\ cmds' = Append(cmds, CmdOn("vmrun", <<>>, result,
                                            vmrunProbe(result, err) = "nil"))
              /\ LET r == vmrunProbe(result, err)
                 IN  IF r = "nil"
                     THEN /\ pc' = "convert"
                          /\ completed' = Append(completed, "Check")
                          /\ UNCHANGED <<failure, handles>>
                     ELSE IF r = "err"
                     THEN /\ InstallReturns("ToolMissing")
                          /\ UNCHANGED <<completed, handles>>
                     ELSE Panic("IndexOutOfRange") /\ UNCHANGED completed
    /\ UNCHANGED <<envVars, fs, fetchVars, unzipVars, vmxPath, net, stages,
                   touched>>

RECURSIVE ReplaceFirst(_, _, _)
\* strings.Replace(s, old, new, 1)
ReplaceFirst(s, old, new) ==
    IF Len(s) < Len(old) THEN s
    ELSE IF HasPrefix(s, old) THEN new \o SubSeq(s, Len(old) + 1, Len(s))
    ELSE <<Head(s)>> \o ReplaceFirst(Tail(s), old, new)

\* what ovftool writes into a new .vmx file
VmxBody == <<"displayName">>

\* convertVmware: ovftool fails if the .vmx file exists
ConvertVmware ==
    /\ pc = "convert"
    /\ stages' = Append(stages, "Prepare")
    /\ LET vmx == ReplaceFirst(vmPath, <<".", "ovf">>, <<".", "vmx">>)
       IN  \E ok \in BOOLEAN :
             /\ ok => IsFile(fs, vmPath) /\ ~Exists(fs, vmx) /\ CanCreate(fs, vmx)
             /\ cmds' = Append(cmds, CmdOn("ovftool convert", vmPath, <<>>, ok))
             /\ IF ok
                THEN /\ fs' = Put(fs, vmx, File(VmxBody))
                     /\ touched' = touched \cup {vmx}
                     /\ vmxPath' = vmx
                     /\ pc' = "fix"
                     /\ UNCHANGED failure
                ELSE /\ InstallReturns("ConvertFailed")
                     /\ UNCHANGED <<fs, touched, vmxPath>>
    /\ UNCHANGED <<envVars, handles, fetchVars, unzipVars, net, completed>>

NetworkLines ==
    << "ethernet0.present", "ethernet0.connectionType",
       "ethernet0.wakeOnPcktRcv", "ethernet0.addressType" >>

\* fixVmwareNetwork: the lines are appended when Stat and OpenFile succeed;
\* the result of the four WriteString calls is not looked at, k of them
\* reach the file
FixVmwareNetwork ==
    /\ pc = "fix"
    /\ \E opened \in BOOLEAN, k \in 0 .. Len(NetworkLines) :
         /\ opened => IsFile(fs, vmxPath)
         /\ ~opened => k = 0
         /\ IF opened
            THEN /\ fs' = Put(fs, vmxPath,
                              File(fs[vmxPath].data \o SubSeq(NetworkLines, 1, k)))
                 /\ touched' = touched \cup {vmxPath}
            ELSE UNCHANGED <<fs, touched>>
         /\ completed' = IF k = Len(NetworkLines)
                         THEN Append(completed, "Prepare") ELSE completed
    /\ pc' = "import"
    /\ UNCHANGED <<envVars, handles, failure, fetchVars, unzipVars, installVars, net,
                   stages>>

\* the path InstallVM hands to the import function
ImportArg(hypervisor) == IF hypervisor = "VMware" THEN vmxPath ELSE vmPath

\* ImportVM that runs the stop command of importVmwareVM whatever the start
\* command returned
ImportVM_StopAnyway ==
    /\ pc = "import"
    /\ stages' = Append(stages, "Import")
    /\ \E ok \in BOOLEAN :
         /\ cmds' = Append(cmds, CmdOn(ImportCmd(uc.Hypervisor),
                                       ImportArg(uc.Hypervisor), <<>>, ok))
         /\ IF uc.Hypervisor = "VMware"
            THEN pc' = "stop" /\ UNCHANGED <<failure, completed>>
            ELSE IF ~ok
            THEN InstallReturns("ImportFailed") /\ UNCHANGED completed
            ELSE /\ pc' = "done"
                 /\ completed' = Append(completed, "Import")
                 /\ UNCHANGED failure
    /\ UNCHANGED <<envVars, handles, fs, fetchVars, unzipVars, vmxPath, net, touched>>

\* importVirtualBoxVM, importHypervVM, importParallelsVM, and the start
\* command of importVmwareVM
ImportVM ==
    /\ pc = "import"
    /\ stages' = Append(stages, "Import")
    /\ \E ok \in BOOLEAN :
         /\ cmds' = Append(cmds, CmdOn(ImportCmd(uc.Hypervisor),
                                       ImportArg(uc.Hypervisor), <<>>, ok))
         /\ IF ~ok
            THEN InstallReturns("ImportFailed") /\ UNCHANGED completed
            ELSE IF uc.Hypervisor = "VMware"
            THEN pc' = "stop" /\ UNCHANGED <<failure, completed>>
            ELSE /\ pc' = "done"
                 /\ completed' = Append(completed, "Import")
                 /\ UNCHANGED failure
    /\ UNCHANGED <<envVars, handles, fs, fetchVars, unzipVars, vmxPath, net, touched>>

\* the stop command of importVmwareVM
StopVmware ==
    /\ pc = "stop"
    /\ \E ok \in BOOLEAN :
         /\ cmds' = Append(cmds, CmdOn("vmrun stop", vmxPath, <<>>, ok))
         /\ IF ok
            THEN /\ pc' = "done"
                 /\ completed' = Append(completed, "Import")
                 /\ UNCHANGED failure
            ELSE InstallReturns("ImportFailed") /\ UNCHANGED completed
    /\ UNCHANGED <<envVars, handles, fs, fetchVars, unzipVars, vmxPath, net, stages,
                   touched>>

\* ------------------------------------------------------------------ main
\* the values every run starts with
RunStart ==
    /\ pc = "getOrigMd5"
    /\ failure = "none"
    /\ origMd5 = <<>>
    /\ md5Status = 0
    /\ vmMd5 = <<>>
    /\ branch = "none"
    /\ respBody = <<>>
    /\ md5sum = Md5New
    /\ hashed = <<>>
    /\ written = <<>>
    /\ unzipFolder = <<>>
    /\ idx = 0
    /\ collectedPaths = <<>>
    /\ vmPath = <<>>
    /\ vmxPath = <<>>
    /\ cmds = <<>>
    /\ net = <<>>
    /\ stages = <<"Fetch">>
    /\ completed = <<>>
    /\ touched = {}
    /\ handles = {}
    /\ vmSrc = NewProgressWrapper(0)
    /\ shown = <<>>

Range(seq) == {seq[i] : i \in 1 .. Len(seq)}

\* nothing ran before the first run
NoHistory == [failure |-> "none", touched |-> {}, verified |-> FALSE]

\* the user starts the program again after it ended
Reinvoke ==
    /\ pc \in {"done", "exit", "panic"}
    /\ runs < MaxRuns
    /\ runs' = runs + 1
    /\ fs0' = fs
    /\ history' = [failure |-> failure,
                   touched |-> history.touched \cup touched,
                   verified |-> history.verified \/ "Fetch" \in Range(completed)]
    /\ pc' = "getOrigMd5"
    /\ failure' = "none"
    /\ origMd5' = <<>>
    /\ md5Status' = 0
    /\ vmMd5' = <<>>
    /\ branch' = "none"
    /\ respBody' = <<>>
    /\ md5sum' = Md5New
    /\ hashed' = <<>>
    /\ written' = <<>>
    /\ unzipFolder' = <<>>
    /\ idx' = 0
    /\ collectedPaths' = <<>>
    /\ vmPath' = <<>>
    /\ vmxPath' = <<>>
    /\ cmds' = <<>>
    /\ net' = <<>>
    /\ stages' = <<"Fetch">>
    /\ completed' = <<>>
    /\ touched' = {}
    /\ handles' = {}
    /\ vmSrc' = NewProgressWrapper(0)
    /\ shown' = <<>>
    /\ UNCHANGED <<uc, srv, fs, menuVars>>

\* ------------------------------------------------------------ the menus
\* software entries of a catalog at most
MaxSoftware == 2

\* the tokens of the choices, in the order of their bytes
ByteOrder ==
    << " ", "/", "Downloads", "IE11", "IE8", "Linux", "VMware", "Vagrant",
       "VirtualBox", "Win7", "Windows", "dl", "home" >>

ByteRank(t) == CHOOSE i \in 1 .. Len(ByteOrder) : ByteOrder[i] = t

RECURSIVE TextLess(_, _)
\* s < t for two texts
TextLess(s, t) ==
    IF t = <<>> THEN FALSE
    ELSE IF s = <<>> THEN TRUE
    ELSE IF Head(s) = Head(t) THEN TextLess(Tail(s), Tail(t))
    ELSE ByteRank(Head(s)) < ByteRank(Head(t))

\* Choice.Less: ch[i] < ch[j], for names (one token) and for texts
Less(a, b, texts) == IF texts THEN TextLess(a, b) ELSE ByteRank(a) < ByteRank(b)

RECURSIVE Insert(_, _, _)
Insert(sorted, c, texts) ==
    IF sorted = <<>> THEN <<c>>
    ELSE IF Less(c, Head(sorted), texts) THEN <<c>> \o sorted
    ELSE <<Head(sorted)>> \o Insert(Tail(sorted), c, texts)

RECURSIVE Sort(_, _)
\* sort.Sort(sortedChoices)
Sort(ch, texts) ==
    IF ch = <<>> THEN <<>>
    ELSE Insert(Sort(SubSeq(ch, 1, Len(ch) - 1), texts), ch[Len(ch)], texts)

\* m[k] of a Go map of slices: nil for a key that is not there
Lookup(m, k) == IF k \in DOMAIN m THEN m[k] ELSE <<>>

\* m[k] = append(m[k], v)
AppendTo(m, k, v) ==
    [x \in DOMAIN m \cup {k} |-> IF x = k THEN Append(Lookup(m, k), v) ELSE m[x]]

\* sort.Sort works on the array the slice of the map shares
SortedIn(m, k, texts) ==
    IF k \in DOMAIN m THEN [m EXCEPT ![k] = Sort(m[k], texts)] ELSE m

\* make(ChoiceGroups), make(AvailableVms)
EmptyMap == [x \in {} |-> <<>>]

\* the zero VmImage
NoImage == [FileURL |-> <<>>, Md5URL |-> <<>>]

RECURSIVE addPlatforms(_, _, _)
\* for _, platform := range software.OsList
addPlatforms(acc, hypervisor, osList) ==
    IF osList = <<>> THEN acc
    ELSE LET platform == Head(osList)
             seen == platform \in acc.seen_platforms
             a1 == [acc EXCEPT
                      !.seen_platforms = acc.seen_platforms \cup {platform},
                      !.platforms = IF seen THEN acc.platforms
                                    ELSE AppendTo(acc.platforms, "All", platform),
                      !.hypervisors = AppendTo(acc.hypervisors, platform, hypervisor)]
         IN  addPlatforms(a1, hypervisor, Tail(osList))

RECURSIVE addFiles(_, _, _, _, _)
\* for _, file := range browser.Files
addFiles(vms, hypervisor, browser_os, osList, files) ==
    IF files = <<>> THEN vms
    ELSE LET file == Head(files)
             vm == [FileURL |-> file.URL, Md5URL |-> file.Md5]
             specs == {[Platform |-> osList[i], Hypervisor |-> hypervisor,
                        BrowserOs |-> browser_os] : i \in 1 .. Len(osList)}
             v1 == IF file.Md5 # <<>>
                   THEN [sp \in DOMAIN vms \cup specs |->
                            IF sp \in specs THEN vm ELSE vms[sp]]
                   ELSE vms
         IN  addFiles(v1, hypervisor, browser_os, osList, Tail(files))

RECURSIVE addVms(_, _, _, _)
\* for _, browser := range software.Vms
addVms(acc, hypervisor, osList, vms) ==
    IF vms = <<>> THEN acc
    ELSE LET browser == Head(vms)
             browser_os == Join(<< <<browser.BrowserName>>, <<browser.OsVersion>> >>, " ")
             a1 == [acc EXCEPT
                      !.browsers = AppendTo(acc.browsers, hypervisor, browser_os),
                      !.available_vms = addFiles(acc.available_vms, hypervisor,
                                                 browser_os, osList, browser.Files)]
         IN  addVms(a1, hypervisor, osList, Tail(vms))

RECURSIVE addSoftware(_, _)
\* for _, software := range data.SoftwareList
addSoftware(acc, list) ==
    IF list = <<>> THEN acc
    ELSE LET software == Head(list)
             hypervisor == software.SoftwareName
         IN  IF hypervisor = "Vagrant" THEN addSoftware(acc, Tail(list))
             ELSE addSoftware(addVms(addPlatforms(acc, hypervisor, software.OsList),
                                     hypervisor, software.OsList, software.Vms),
                              Tail(list))

\* ParseJson for the software list of the data
ParseJson(data) ==
    addSoftware([seen_platforms |-> {}, platforms |-> EmptyMap,
                 hypervisors |-> EmptyMap, browsers |-> EmptyMap,
                 available_vms |-> EmptyMap], data)

\* get_download_path
get_download_path(h) ==
    IF h.GOOS \in {"linux", "darwin"} THEN PathJoin(h.HOME, <<"Downloads">>)
    ELSE IF h.GOOS = "windows" THEN PathJoin(h.USERPROFILE, <<"Downloads">>)
    ELSE <<>>

RECURSIVE nonEmpty(_)
nonEmpty(paths) ==
    IF paths = <<>> THEN <<>>
    ELSE IF Head(paths) # <<>> THEN <<Head(paths)>> \o nonEmpty(Tail(paths))
    ELSE nonEmpty(Tail(paths))

\* GetDownloadPaths: the working path, and the download path if there is one
GetDownloadPaths(h) ==
    LET paths == nonEmpty(<<h.wd, get_download_path(h)>>)
    IN  IF paths = <<>> THEN EmptyMap ELSE [x \in {"All"} |-> paths]

\* the index of the first choice with a property, or none when no choice
\* has it
FirstIndex(choices, has, none) ==
    IF has = {} THEN none
    ELSE (CHOOSE i \in has : \A j \in has : i <= j) - 1

GetDefaultPlatform(choices, goos) ==
    FirstIndex(choices,
               {i \in 1 .. Len(choices) :
                   \/ choices[i] = "Linux" /\ goos = "linux"
                   \/ choices[i] = "Windows" /\ goos = "windows"
                   \/ choices[i] = "Mac" /\ goos = "darwin"},
               1)

GetDefaultHypervisor(choices) ==
    FirstIndex(choices, {i \in 1 .. Len(choices) : choices[i] = "VirtualBox"}, 1)

GetDefaultBrowser(choices) == Len(choices) - 1

\* strings.Contains(download_path, "Downloads")
ContainsDownloads(download_path) ==
    \E i \in 1 .. Len(download_path) : download_path[i] = "Downloads"

GetDefaultDownloadPath(choices) ==
    FirstIndex(choices,
               {i \in 1 .. Len(choices) : ContainsDownloads(choices[i])},
               Len(choices))

DigitChars == <<"0", "1", "2", "3", "4", "5", "6", "7", "8", "9">>

DigitOf(c) == (CHOOSE i \in 1 .. 10 : DigitChars[i] = c) - 1

RECURSIVE Decimal(_, _)
Decimal(s, n) == IF s = <<>> THEN n ELSE Decimal(Tail(s), 10 * n + DigitOf(Head(s)))

\* strconv.Atoi(s): an optional sign and decimal digits, an error for
\* anything else
Atoi(s) ==
    LET signed == s # <<>> /\ Head(s) \in {"+", "-"}
        digits == IF signed THEN Tail(s) ELSE s
    IN  IF digits = <<>> \/ \E i \in 1 .. Len(digits) : digits[i] \notin Range(DigitChars)
        THEN [err |-> TRUE, n |-> 0]
        ELSE [err |-> FALSE,
              n |-> IF signed /\ Head(s) = "-" THEN 0 - Decimal(digits, 0)
                    ELSE Decimal(digits, 0)]

\* sortedChoices[i]: the element, or the panic of an index out of range
Index(sortedChoices, i) ==
    IF i \in 0 .. Len(sortedChoices) - 1
    THEN [kind |-> "return", index |-> i, value |-> sortedChoices[i + 1]]
    ELSE [kind |-> "panic", index |-> i]

\* one turn of the loop of SelectOption for a line the user typed: it
\* returns a choice, reads the next line, or panics
SelectOption(sortedChoices, defaultChoice, text) ==
    IF TrimSpace(text) = <<>> THEN Index(sortedChoices, defaultChoice)
    ELSE LET a == Atoi(TrimSpace(text))
         IN  IF a.err THEN [kind |-> "continue"]
             ELSE IF a.n < 0 \/ a.n > Len(sortedChoices) THEN [kind |-> "continue"]
             ELSE Index(sortedChoices, a.n)

\* lines the user may type at a menu: nothing, blanks, a word, numbers
Lines ==
    { <<"\n">>, <<" ", "\n">>, <<"x", "\n">>, <<"-", "1", "\n">>, <<"0", "\n">>,
      <<" ", "1", "\n">>, <<"2", "\n">>, <<"3", "\n">>, <<"1", "0", "\n">> }

\* strings.ToLower, for the letters of the answers
ToLower(s) == [i \in 1 .. Len(s) |-> IF s[i] = "Y" THEN "y" ELSE s[i]]

\* lines the user may type at the confirmation
Answers == { <<"y", "\n">>, <<"Y", "\n">>, <<"n", "\n">>, <<"\n">> }

\* what main leaves alone before it calls DownloadVM
pipelineVars ==
    <<srv, fs, runs, fs0, history, fetchVars, unzipVars, installVars, net,
      completed, touched>>

\* main, line 17: the maps of the menus
MainParseJson ==
    /\ pc = "parseJson"
    /\ LET r == ParseJson(catalog)
       IN  /\ platforms' = r.platforms
           /\ hypervisors' = r.hypervisors
           /\ browsers' = r.browsers
           /\ availableVms' = r.available_vms
    /\ pc' = "selectPlatform"
    /\ UNCHANGED <<uc, failure, handles, catalog, host, indexed, stages,
                   pipelineVars>>

\* the end of a turn of SelectOption
Selected(r, len, chosen, next) ==
    IF r.kind = "continue"
    THEN UNCHANGED <<uc, pc, failure, handles, indexed>>
    ELSE /\ indexed' = [len |-> len, idx |-> r.index]
         /\ IF r.kind = "panic"
            THEN Panic("IndexOutOfRange") /\ UNCHANGED uc
            ELSE /\ uc' = chosen
                 /\ pc' = next
                 /\ UNCHANGED <<failure, handles>>

\* main, line 20: SelectOption(platforms, ..., "All", GetDefaultPlatform)
SelectPlatform ==
    /\ pc = "selectPlatform"
    /\ platforms' = SortedIn(platforms, "All", FALSE)
    /\ \E text \in Lines :
         LET sortedChoices == Sort(Lookup(platforms, "All"), FALSE)
             r == SelectOption(sortedChoices,
                               GetDefaultPlatform(sortedChoices, host.GOOS), text)
         IN  Selected(r, Len(sortedChoices), [uc EXCEPT !.Platform = r.value],
                      "selectHypervisor")
    /\ UNCHANGED <<catalog, host, hypervisors, browsers, availableVms, stages,
                   pipelineVars>>

\* main, lines 21 and 22: SelectOption(hypervisors, ..., userChoice.Platform,
\* GetDefaultHypervisor)
SelectHypervisor ==
    /\ pc = "selectHypervisor"
    /\ hypervisors' = SortedIn(hypervisors, uc.Platform, FALSE)
    /\ \E text \in Lines :
         LET sortedChoices == Sort(Lookup(hypervisors, uc.Platform), FALSE)
             r == SelectOption(sortedChoices, GetDefaultHypervisor(sortedChoices),
                               text)
         IN  Selected(r, Len(sortedChoices), [uc EXCEPT !.Hypervisor = r.value],
                      "selectBrowser")
    /\ UNCHANGED <<catalog, host, platforms, browsers, availableVms, stages,
                   pipelineVars>>

\* main, line 23: SelectOption(browsers, ..., userChoice.Hypervisor,
\* GetDefaultBrowser)
SelectBrowser ==
    /\ pc = "selectBrowser"
    /\ browsers' = SortedIn(browsers, uc.Hypervisor, TRUE)
    /\ \E text \in Lines :
         LET sortedChoices == Sort(Lookup(browsers, uc.Hypervisor), TRUE)
             r == SelectOption(sortedChoices, GetDefaultBrowser(sortedChoices),
                               text)
         IN  Selected(r, Len(sortedChoices), [uc EXCEPT !.BrowserOs = r.value],
                      "resolve")
    /\ UNCHANGED <<catalog, host, platforms, hypervisors, availableVms,
                   stages, pipelineVars>>

\* userChoice.Spec
SpecOf(u) ==
    [Platform |-> u.Platform, Hypervisor |-> u.Hypervisor, BrowserOs |-> u.BrowserOs]

\* main, line 24: userChoice.VMImage = availableVms[userChoice.Spec]
ResolveImage ==
    /\ pc = "resolve"
    /\ LET vm == IF SpecOf(uc) \in DOMAIN availableVms
                 THEN availableVms[SpecOf(uc)] ELSE NoImage
       IN  uc' = [uc EXCEPT !.FileURL = vm.FileURL, !.Md5URL = vm.Md5URL]
    /\ pc' = "selectPath"
    /\ UNCHANGED <<failure, handles, menuVars, stages, pipelineVars>>

\* main, line 25: SelectOption(GetDownloadPaths(), ..., "All",
\* GetDefaultDownloadPath)
SelectDownloadPath ==
    /\ pc = "selectPath"
    /\ \E text \in Lines :
         LET sortedChoices == Sort(Lookup(GetDownloadPaths(host), "All"), TRUE)
             r == SelectOption(sortedChoices,
                               GetDefaultDownloadPath(sortedChoices), text)
         IN  Selected(r, Len(sortedChoices), [uc EXCEPT !.DownloadPath = r.value],
                      "confirm")
    /\ UNCHANGED <<catalog, host, platforms, hypervisors, browsers,
                   availableVms, stages, pipelineVars>>

\* main, line 26: ConfirmUsersChoice, whose YesNoConfirmation ends the
\* program unless the answer starts with y; then main calls DownloadVM
ConfirmUsersChoice ==
    /\ pc = "confirm"
    /\ \E text \in Answers :
         IF HasPrefix(ToLower(TrimSpace(text)), <<"y">>)
         THEN /\ pc' = "getOrigMd5"
              /\ stages' = Append(stages, "Fetch")
              /\ UNCHANGED failure
         ELSE Exit1("Cancelled") /\ UNCHANGED stages
    /\ UNCHANGED <<uc, handles, menuVars, pipelineVars>>

\* utils.UserChoice{}
NoChoice ==
    [Platform |-> "", Hypervisor |-> "", BrowserOs |-> <<>>, FileURL |-> <<>>,
     Md5URL |-> <<>>, DownloadPath |-> <<>>]

\* no index was used yet
NoIndex == [len |-> 0, idx |-> 0 - 1]

\* the machine of the pipeline runs
TheHost ==
    [GOOS |-> GOOS, HOME |-> <<"/", "home">>, USERPROFILE |-> <<>>,
     wd |-> <<"/", "dl">>]

\* the menus are over or were never shown
NoMenu ==
    /\ catalog = <<>>
    /\ host = TheHost
    /\ platforms = EmptyMap
    /\ hypervisors = EmptyMap
    /\ browsers = EmptyMap
    /\ availableVms = EmptyMap
    /\ indexed = NoIndex

\* ------------------------------------------------------- initial states
DownloadDir == <<"/", "dl">>

ArchiveURL == <<"http:", "/", "/", "host", "/", "img", ".", "zip">>

HypervisorNames == Supported \cup {"Vagrant"}

UserChoices(hyps) ==
    {[Hypervisor |-> h, DownloadPath |-> DownloadDir, FileURL |-> ArchiveURL] :
        h \in hyps}

\* names of archive entries: entry points, directories (one with the name
\* of an entry point) and a file in a directory
EntryNames ==
    { <<"a", ".", "ova">>, <<"b", ".", "ova">>, <<"a", ".", "ovf">>,
      <<"d", "/">>, <<"d", ".", "ova", "/">>, <<"d", "/", "c", ".", "ovf">> }

\* archives of at most n entries with different names
Archives(names, n) ==
    {a \in SeqsUpTo(names, n) : \A i, j \in 1 .. Len(a) : a[i] = a[j] => i = j}

\* the file system with only the download directory
BaseFs(u) == [q \in {<<"/">>, u.DownloadPath} |-> Dir]

\* f with the archive file holding data
WithArchive(f, u, data) == Put(f, VmFile(u), File(data))

\* f with the unzip folder and the entries numbered in S already unpacked
WithEntries(f, u, entries, S) ==
    LET folder == UnzipFolderOf(u)
        paths == {pathJoin(folder, entries[i]) : i \in S}
        files == {pathJoin(folder, entries[i]) :
                     i \in {j \in S : ~IsDirEntry(entries[j])}}
        dirs == ({folder} \cup paths \cup UNION {Ancestors(q) : q \in paths}) \ files
    IN  [q \in DOMAIN f \cup dirs \cup files |->
            IF q \in DOMAIN f THEN f[q]
            ELSE IF q \in files THEN File(EntryData) ELSE Dir]

\* the sets of entries that may be unpacked already: every entry, or any
\* of the entries
Unpacked(entries, anySubset) ==
    IF anySubset THEN SUBSET (1 .. Len(entries)) ELSE {1 .. Len(entries)}

\* the initial states: a user choice, a site, and a file system that has no
\* archive file or one with bytes of olds, and no unzip folder or one with
\* entries of the archive
InitWith(ucs, srvs, olds, anySubset) ==
    /\ uc \in ucs
    /\ srv \in srvs
    /\ \E old \in {[present |-> FALSE, data |-> <<>>]}
                    \cup {[present |-> TRUE, data |-> d] : d \in olds},
          prep \in {[present |-> FALSE, S |-> {}]}
                    \cup {[present |-> TRUE, S |-> S] : S \in Unpacked(srv.entries, anySubset)} :
         LET f1 == IF old.present THEN WithArchive(BaseFs(uc), uc, old.data)
                   ELSE BaseFs(uc)
         IN  fs = IF prep.present THEN WithEntries(f1, uc, srv.entries, prep.S)
                  ELSE f1
    /\ fs0 = fs
    /\ runs = 1
    /\ history = NoHistory
    /\ NoMenu
    /\ RunStart

\* the bodies the md5 resource may have for an archive
PublishedBodies(bytes) ==
    {Md5Hex(c) : c \in Contents} \cup {Md5Hex(bytes) \o <<"\n">>}

TheArchive == << <<"d", "/">>, <<"a", ".", "ovf">> >>

TheBytes == <<1, 0>>

\* the whole pipeline: every hypervisor, a few archives, a right or wrong
\* published md5 sum
Init ==
    InitWith(UserChoices(HypervisorNames),
             {[bytes |-> TheBytes, entries |-> e, md5body |-> m] :
                 e \in {TheArchive, << <<"a", ".", "ova">> >>,
                        << <<"a", ".", "xml">>, <<"a", ".", "pvs">> >>},
                 m \in {Md5Hex(TheBytes), Md5Hex(<<>>)}},
             {TheBytes, <<>>},
             FALSE)

\* DownloadVM: every archive content, published body and old file
InitFetch ==
    InitWith(UserChoices({"VMware"}),
             UNION {{[bytes |-> b, entries |-> TheArchive, md5body |-> m] :
                        m \in PublishedBodies(b)} : b \in Contents},
             Contents,
             FALSE)

\* UnzipVM: every archive and every set of entries unpacked before
InitExtract ==
    InitWith(UserChoices({"VirtualBox", "VMware", "Vagrant"}),
             {[bytes |-> TheBytes, entries |-> e, md5body |-> Md5Hex(TheBytes)] :
                 e \in Archives(EntryNames, MaxEntries)},
             {TheBytes},
             TRUE)

\* names of archive entries: one entry point for each hypervisor, a second
\* one for VirtualBox, and a disk
SelectNames ==
    { <<"a", ".", "ova">>, <<"b", ".", "ova">>, <<"a", ".", "ovf">>,
      <<"a", ".", "xml">>, <<"a", ".", "pvs">>, <<"a", ".", "vmdk">> }

\* vmFilePath: every hypervisor and every archive of files
InitSelect ==
    InitWith(UserChoices(HypervisorNames),
             {[bytes |-> TheBytes, entries |-> e, md5body |-> Md5Hex(TheBytes)] :
                 e \in Archives(SelectNames, MaxEntries)},
             {TheBytes},
             FALSE)

\* names InstallVM may be called with: the four it knows, and others
InstallNames == Supported \cup {"Vagrant", "vmware", ""}

\* InstallVM called on its own: any hypervisor name, the path of an unpacked
\* file, and a download directory with the archive unpacked
InitInstall ==
    /\ uc \in UserChoices(InstallNames)
    /\ srv = [bytes |-> TheBytes, entries |-> TheArchive,
              md5body |-> Md5Hex(TheBytes)]
    /\ \E kept \in BOOLEAN :
         fs = WithEntries(IF kept THEN WithArchive(BaseFs(uc), uc, TheBytes)
                          ELSE BaseFs(uc),
                          uc, srv.entries, 1 .. Len(srv.entries))
    /\ fs0 = fs
    /\ runs = 1
    /\ history = NoHistory
    /\ NoMenu
    /\ pc = "install"
    /\ vmPath = pathJoin(UnzipFolderOf(uc), srv.entries[Len(srv.entries)])
    /\ failure = "none"
    /\ origMd5 = <<>>
    /\ md5Status = 0
    /\ vmMd5 = <<>>
    /\ branch = "none"
    /\ respBody = <<>>
    /\ md5sum = Md5New
    /\ hashed = <<>>
    /\ written = <<>>
    /\ unzipFolder = <<>>
    /\ idx = 0
    /\ collectedPaths = <<>>
    /\ vmxPath = <<>>
    /\ cmds = <<>>
    /\ net = <<>>
    /\ stages = <<>>
    /\ completed = <<>>
    /\ touched = {}
    /\ handles = {}
    /\ vmSrc = NewProgressWrapper(0)
    /\ shown = <<>>

\* download directories, one with a dot in its name
DownloadDirs == {DownloadDir, <<"/", "d", ".", "l">>}

\* file URLs whose base name has one extension, two, or none
ArchiveURLs ==
    { ArchiveURL,
      <<"http:", "/", "/", "host", "/", "img", ".", "tar", ".", "zip">>,
      <<"http:", "/", "/", "host", "/", "img">> }

\* UnzipVM's folder: every download directory and file URL, the archive on
\* disk already or not
InitDerive ==
    /\ uc \in {[Hypervisor |-> h, DownloadPath |-> d, FileURL |-> u] :
                  h \in {"VirtualBox", "VMware"}, d \in DownloadDirs,
                  u \in ArchiveURLs}
    /\ srv = [bytes |-> TheBytes, entries |-> TheArchive,
              md5body |-> Md5Hex(TheBytes)]
    /\ fs \in {BaseFs(uc), WithArchive(BaseFs(uc), uc, TheBytes)}
    /\ fs0 = fs
    /\ runs = 1
    /\ history = NoHistory
    /\ NoMenu
    /\ RunStart

\* names of archive entries: a plain one, one that starts with "..", an
\* absolute one, and one with ".." components after a directory
SlipNames ==
    { <<"a", ".", "ova">>,
      <<".", ".", "/", "e", ".", "ova">>,
      <<"/", "f", ".", "ovf">>,
      <<"d", "/", ".", ".", "/", ".", ".", "/", "g", ".", "ova">> }

\* UnzipVM on archives whose entry names point out of the unzip folder
InitContain ==
    InitWith(UserChoices({"VirtualBox", "VMware"}),
             {[bytes |-> TheBytes, entries |-> e, md5body |-> Md5Hex(TheBytes)] :
                 e \in Archives(SlipNames, MaxEntries)},
             {TheBytes},
             FALSE)

\* the md5 file of the archive
Md5URL == ArchiveURL \o <<".", "md5">>

\* the files of a vm of the catalog: the archive, with the URL of its md5
\* file or without it
Files(withMd5) ==
    << [URL |-> ArchiveURL, Md5 |-> IF withMd5 THEN Md5URL ELSE <<>>] >>

Vm(browserName, osVersion, withMd5) ==
    [BrowserName |-> browserName, OsVersion |-> osVersion, Files |-> Files(withMd5)]

\* the vms of a software entry: all with an md5 file, or one without
VmLists ==
    { << Vm("IE8", "Win7", TRUE) >>,
      << Vm("IE8", "Win7", TRUE), Vm("IE11", "Win7", TRUE) >>,
      << Vm("IE8", "Win7", TRUE), Vm("IE11", "Win7", FALSE) >> }

OsLists == { <<"Windows">>, <<"Windows", "Linux">> }

SoftwareNames == {"VirtualBox", "VMware", "Vagrant"}

\* catalogs of at most n software entries with different names
Catalogs(n) ==
    {c \in SeqsUpTo([SoftwareName : SoftwareNames, OsList : OsLists, Vms : VmLists], n) :
        \A i, j \in 1 .. Len(c) : c[i].SoftwareName = c[j].SoftwareName => i = j}

\* machines: with and without a download path of their own, started in a
\* directory with or without Downloads in its name
Hosts ==
    {[GOOS |-> g, HOME |-> <<"/", "home">>, USERPROFILE |-> <<>>, wd |-> w] :
        g \in {GOOS, "freebsd"},
        w \in {<<"/", "dl">>, <<"/", "home", "/", "Downloads">>}}

\* main before it parses the catalog: every catalog and machine
InitMenu ==
    /\ catalog \in Catalogs(MaxSoftware) \ {<<>>}
    /\ host \in Hosts
    /\ platforms = EmptyMap
    /\ hypervisors = EmptyMap
    /\ browsers = EmptyMap
    /\ availableVms = EmptyMap
    /\ indexed = NoIndex
    /\ uc = NoChoice
    /\ srv = [bytes |-> TheBytes, entries |-> TheArchive,
              md5body |-> Md5Hex(TheBytes)]
    /\ fs = [q \in {<<"/">>, <<"/", "home">>, host.wd} |-> Dir]
    /\ fs0 = fs
    /\ runs = 1
    /\ history = NoHistory
    /\ pc = "parseJson"
    /\ failure = "none"
    /\ origMd5 = <<>>
    /\ md5Status = 0
    /\ vmMd5 = <<>>
    /\ branch = "none"
    /\ respBody = <<>>
    /\ md5sum = Md5New
    /\ hashed = <<>>
    /\ written = <<>>
    /\ unzipFolder = <<>>
    /\ idx = 0
    /\ collectedPaths = <<>>
    /\ vmPath = <<>>
    /\ vmxPath = <<>>
    /\ cmds = <<>>
    /\ net = <<>>
    /\ stages = <<>>
    /\ completed = <<>>
    /\ touched = {}
    /\ handles = {}
    /\ vmSrc = NewProgressWrapper(0)
    /\ shown = <<>>

Next ==
    \/ GetOrigMd5
    \/ StatVmFile
    \/ CheckOldFile
    \/ OtherRunCreates
    \/ CreateNewFile
    \/ HttpGetFile
    \/ CopyChunk
    \/ CompareNewFile
    \/ ZipOpen
    \/ MkdirUnzipFolder
    \/ UnzipEntry
    \/ FindVmPath
    \/ InstallVM
    \/ CheckTool
    \/ CheckTool2
    \/ ConvertVmware
    \/ FixVmwareNetwork
    \/ ImportVM
    \/ StopVmware
    \/ Reinvoke

Spec == Init /\ [][Next]_vars

SpecFetch == InitFetch /\ [][Next]_vars

SpecExtract == InitExtract /\ [][Next]_vars

SpecSelect == InitSelect /\ [][Next]_vars

SpecInstall == InitInstall /\ [][Next]_vars

SpecDerive == InitDerive /\ [][Next]_vars

SpecContain == InitContain /\ [][Next]_vars

\* main up to the call of DownloadVM
NextMenu ==
    \/ MainParseJson
    \/ SelectPlatform
    \/ SelectHypervisor
    \/ SelectBrowser
    \/ ResolveImage
    \/ SelectDownloadPath
    \/ ConfirmUsersChoice

SpecMenu == InitMenu /\ [][NextMenu]_vars

\* ---------------------------------------------------- properties: fetch
\* DownloadVM found the file, computed its sum, and the sums differ
OldFileMismatch == branch = "old" /\ vmMd5 # <<>> /\ vmMd5 # origMd5

\* DownloadVM found the file, computed its sum, and the sums are equal
OldFileMatch == branch = "old" /\ vmMd5 # <<>> /\ vmMd5 = origMd5

\* the archive file is what it was when the run started
ArchiveUntouched ==
    /\ Exists(fs, VmFile(uc))
    /\ Exists(fs0, VmFile(uc))
    /\ fs[VmFile(uc)] = fs0[VmFile(uc)]
    /\ VmFile(uc) \notin touched

\* C1: when the file already exists and its sum differs from the published
\* one, the run ends with the md5 mismatch, the file stays as it was, the
\* archive is not requested, and nothing is unpacked or installed.
C1_FailClosed ==
    OldFileMismatch =>
        /\ pc = "exit"
        /\ failure = "IntegrityMismatch"
        /\ vmMd5 = Md5Hex(fs0[VmFile(uc)].data)
        /\ ArchiveUntouched
        /\ "file" \notin Range(net)
        /\ stages = <<"Fetch">>
        /\ completed = <<>>
        /\ cmds = <<>>

C1_Witness == OldFileMismatch /\ pc = "exit" /\ fs0[VmFile(uc)].data # <<>>

\* C2 as stated: when the file already exists and its sum equals the
\* published one, DownloadVM does no network I/O at all, succeeds, and
\* leaves the file as it was.
C2_NoNetworkAtAll ==
    OldFileMatch =>
        /\ net = <<>>
        /\ "Fetch" \in Range(completed)
        /\ ArchiveUntouched

\* C2 amended: when the file already exists and its sum equals the
\* published one, the only request DownloadVM makes is the one for the
\* published sum (the archive is not requested), it succeeds, and the file
\* stays as it was.
C2_NoArchiveRequest ==
    OldFileMatch =>
        /\ net = <<"md5">>
        /\ "Fetch" \in Range(completed)
        /\ failure # "IntegrityMismatch"
        /\ vmMd5 = Md5Hex(fs0[VmFile(uc)].data)
        /\ ArchiveUntouched

C2_Witness == OldFileMatch /\ pc = "zipOpen" /\ fs0[VmFile(uc)].data # <<>>

\* DownloadVM downloaded the file, computed the sum, and the sums differ
NewFileMismatch == branch = "new" /\ vmMd5 # <<>> /\ vmMd5 # origMd5

\* C3: when a download ends with a sum that differs from the published one,
\* the run ends with the md5 mismatch, the downloaded file is on disk with
\* the bytes that were written, and nothing is unpacked.
C3_MismatchKeepsDownload ==
    NewFileMismatch =>
        /\ ~Exists(fs0, VmFile(uc))
        /\ vmMd5 = SprintfX(md5sum)
        /\ pc = "exit"
        /\ failure = "IntegrityMismatch"
        /\ IsFile(fs, VmFile(uc))
        /\ fs[VmFile(uc)].data = written
        /\ stages = <<"Fetch">>
        /\ completed = <<>>

C3_Witness == NewFileMismatch /\ pc = "exit" /\ written # <<>>

\* C4: during a download the bytes handed to the md5 accumulator are the
\* bytes the file accepted, whatever the chunks and the write results; so
\* after the copy the accumulated sum is the sum of the file on disk.
C4_SinglePass ==
    branch = "new" =>
        /\ hashed = written
        /\ pc = "compare" => SprintfX(md5sum) = Md5Hex(fs[VmFile(uc)].data)

\* ------------------------------------------------- properties: pipeline
StageOrder == <<"Fetch", "Extract", "Check", "Prepare", "Import">>

Rank(stage) == CHOOSE i \in 1 .. Len(StageOrder) : StageOrder[i] = stage

\* the stage the pipeline runs before `stage`: Prepare is a step of the
\* VMware adapter only
StageBefore(stage) ==
    IF stage = "Import" /\ uc.Hypervisor # "VMware" THEN "Check"
    ELSE StageOrder[Rank(stage) - 1]

\* C5: the stages of a run are entered in the order Fetch, Extract, Check,
\* Prepare, Import, each at most once and each only after the stage before
\* it completed successfully in this run.
C5_StageOrder ==
    /\ stages[1] = "Fetch"
    /\ \A i, j \in 1 .. Len(stages) : i < j => Rank(stages[i]) < Rank(stages[j])
    /\ \A i \in 2 .. Len(stages) :
          /\ stages[i - 1] = StageBefore(stages[i])
          /\ StageBefore(stages[i]) \in Range(completed)

\* the commands of this run that are called name
Ran(name) == {i \in 1 .. Len(cmds) : cmds[i].cmd = name}

RanOk(name) == \E i \in Ran(name) : cmds[i].ok

\* the four lines are at the end of the .vmx file convertVmware made
NetworkFixed ==
    /\ vmxPath # <<>>
    /\ IsFile(fs, vmxPath)
    /\ fs[vmxPath].data = VmxBody \o NetworkLines

\* the state of the adapter: what this run's steps have achieved
AdapterState ==
    IF "Import" \in Range(completed) THEN "Imported"
    ELSE IF "Check" \in Range(completed)
            /\ (uc.Hypervisor = "VMware" => RanOk("ovftool convert") /\ NetworkFixed)
         THEN "Prepared"
    ELSE IF "Check" \in Range(completed) THEN "Checked"
    ELSE "NotChecked"

\* C6: an adapter moves along NotChecked, Checked, Prepared, Imported only:
\* its import command is run only when the adapter is prepared (the check
\* returned ok and, for VMware, the conversion returned ok and the .vmx file
\* was fixed), and no command is run after a step that failed.
C6_AdapterStateMachine ==
    /\ Ran(ImportCmd(uc.Hypervisor)) # {} =>
          /\ "Check" \in Range(completed)
          /\ uc.Hypervisor = "VMware" => RanOk("ovftool convert")
          /\ AdapterState \in {"Prepared", "Imported"}
    /\ Ran("ovftool convert") # {} => "Check" \in Range(completed)
    /\ \A i \in 1 .. Len(cmds) - 1 : cmds[i].ok
    /\ "Import" \in Range(completed) => \A i \in 1 .. Len(cmds) : cmds[i].ok

\* ----------------------------------------------- properties: extraction
\* the archive entries that were on disk when the run started
PreExisting ==
    {i \in 1 .. Len(srv.entries) :
        Exists(fs0, pathJoin(UnzipFolderOf(uc), srv.entries[i]))}

EntryPath(i) == pathJoin(UnzipFolderOf(uc), srv.entries[i])

\* UnzipVM has returned the result of vmFilePath to main
UnzipReturned == vmPath # <<>> \/ failure = "EntryPointNotFound"

RECURSIVE UnzipAll(_, _, _, _)
\* the loop of UnzipVM over entries without an I/O fault
UnzipAll(f, folder, entries, collected) ==
    IF entries = <<>> THEN [err |-> FALSE, collected |-> collected]
    ELSE LET r == unzipStep(f, folder, Head(entries), "ok", 0)
         IN  IF r.err THEN [err |-> TRUE, collected |-> collected \o r.add]
             ELSE UnzipAll(r.fs, folder, Tail(entries), collected \o r.add)

\* the entry point UnzipVM returns for the archive on an empty destination,
\* <<>> when it returns an error
FreshEntryPoint ==
    LET folder == UnzipFolderOf(uc)
        r == UnzipAll(Put(BaseFs(uc), folder, Dir), folder, srv.entries, <<>>)
    IN  IF r.err THEN <<>> ELSE vmFilePath(uc.Hypervisor, r.collected).path

\* C7: entries that are on disk already are not written again, their paths
\* are candidates all the same, and UnzipVM returns the entry point it
\* returns for the same archive and hypervisor on an empty destination.
C7_ResumableExtraction ==
    /\ \A i \in PreExisting :
          /\ EntryPath(i) \notin touched
          /\ Exists(fs, EntryPath(i))
          /\ fs[EntryPath(i)] = fs0[EntryPath(i)]
    /\ UnzipReturned =>
          /\ \A i \in PreExisting : EntryPath(i) \in Range(collectedPaths)
          /\ vmPath = FreshEntryPoint

\* the suffix C8 gives for each hypervisor
EntryPointSuffix ==
    [VirtualBox |-> <<".", "ova">>, VMware |-> <<".", "ovf">>,
     HyperV |-> <<".", "xml">>, Parallels |-> <<".", "pvs">>]

\* the candidates with the suffix of the chosen hypervisor
Matches ==
    {i \in 1 .. Len(collectedPaths) :
        HasSuffix(collectedPaths[i], EntryPointSuffix[uc.Hypervisor])}

\* a path with the suffix of a hypervisor that was not chosen
OtherSuffix(path) ==
    \E h \in Supported \ {uc.Hypervisor} : HasSuffix(path, EntryPointSuffix[h])

\* C8: for each of the four hypervisors, vmFilePath returns the only
\* candidate with the hypervisor's suffix when there is exactly one, returns
\* the error (and no path) when there is none, and returns the same whether
\* or not candidates with the other hypervisors' suffixes are there.
C8_EntryPointSelection ==
    (/\ uc.Hypervisor \in Supported
     /\ \/ pc = "entry" /\ idx > Len(srv.entries)
        \/ UnzipReturned) =>
        LET r == vmFilePath(uc.Hypervisor, collectedPaths)
        IN  /\ Cardinality(Matches) = 1 =>
                 /\ ~r.err
                 /\ \E i \in Matches : r.path = collectedPaths[i]
            /\ Matches = {} => r.err /\ r.path = <<>>
            /\ r.err => r.path = <<>>
            /\ r = vmFilePath(uc.Hypervisor,
                              SelectSeq(collectedPaths, LAMBDA q : ~OtherSuffix(q)))
            /\ UnzipReturned =>
                 /\ vmPath = r.path
                 /\ r.err <=> failure = "EntryPointNotFound"
                 /\ r.err <=> "Extract" \notin Range(completed)

C8_Witness ==
    /\ uc.Hypervisor = "HyperV"
    /\ vmPath # <<>>
    /\ Cardinality(Matches) = 1
    /\ \E i \in 1 .. Len(collectedPaths) : OtherSuffix(collectedPaths[i])

\* C9: when two or more unpacked files have the hypervisor's suffix, UnzipVM
\* ends in an error and returns none of them.
C9_AmbiguousIsError ==
    (uc.Hypervisor \in Supported /\ UnzipReturned /\ Cardinality(Matches) >= 2) =>
        /\ vmPath = <<>>
        /\ failure # "none"
        /\ "Extract" \notin Range(completed)

\* C10: with a hypervisor that has no adapter UnzipVM fails before it
\* does any work: it makes no directory and writes no entry.
C10_UnsupportedShortCircuit ==
    (uc.Hypervisor \notin Supported) =>
        /\ touched \subseteq {VmFile(uc)}
        /\ Changed(fs, fs0) \subseteq {VmFile(uc)}
        /\ "Extract" \notin Range(completed)

\* ----------------------------------------------- properties: InstallVM
\* InstallVM was called with a name it has no case for, and has returned
UnsupportedCall ==
    /\ uc.Hypervisor \notin Supported
    /\ vmPath # <<>>
    /\ pc # "install"

\* C11: when InstallVM is called with a hypervisor name that is none of the
\* four, it runs no command, makes or changes no file, only says that the
\* hypervisor is not supported, and the program ends.
C11_UnsupportedInstall ==
    /\ UnsupportedCall =>
          /\ failure = "UnsupportedBackend"
          /\ pc = "done"
          /\ cmds = <<>>
          /\ touched = {}
          /\ fs = fs0
          /\ "Check" \notin Range(stages)
    /\ failure = "UnsupportedBackend" => UnsupportedCall

C11_Witness ==
    /\ UnsupportedCall
    /\ failure = "UnsupportedBackend"
    /\ uc.Hypervisor = "vmware"

\* ------------------------------------------------ properties: re-runs
\* this run follows a run that failed, and the site now answers with the
\* md5 sum of the archive it serves
RerunAfterFailure ==
    /\ runs >= 2
    /\ history.failure # "none"
    /\ md5Status = 200
    /\ origMd5 = Md5Hex(srv.bytes)

\* the .vmx path convertVmware derives from vmPath
VmxOf(path) == ReplaceFirst(path, <<".", "ovf">>, <<".", "vmx">>)

\* this run failed on a file an earlier run left on disk: the archive file
\* whose sum differs, or the .vmx file ovftool does not overwrite
FailedOnLeftover ==
    \/ /\ failure = "IntegrityMismatch"
       /\ branch = "old"
       /\ VmFile(uc) \in history.touched
    \/ /\ failure = "ConvertFailed"
       /\ VmxOf(vmPath) \in history.touched
       /\ Exists(fs0, VmxOf(vmPath))

\* C12: a run that follows a failed run, with the cause of the failure
\* gone, does not fail because of what the failed run left on disk (a part
\* of the archive, a .vmx file).
C12_ResumeByReinvocation == RerunAfterFailure => ~FailedOnLeftover

\* ----------------------------------------- properties: failure reports
\* the failures UnzipVM returns as its err
UnzipErrors == {"ArchiveFormatError", "FilesystemError", "EntryPointNotFound"}

\* the error main holds when the program has ended: DownloadVM returns a
\* path only, InstallVM returns nothing, UnzipVM returns (path, err)
MainErr == IF pc = "done" /\ failure \in UnzipErrors THEN failure ELSE "none"

\* C13: every failure of a stage comes back to main as a returned error
\* that says what failed: no stage ends the process itself, and a run whose
\* check, conversion or import failed does not look like a success to main.
C13_TypedPropagation ==
    /\ pc \notin {"exit", "panic"}
    /\ failure # "none" => pc = "done" /\ MainErr = failure

\* -------------------------------------------- properties: unzip folder
\* a file name without its last extension; a name without a dot is kept
StripExt(name) ==
    IF \E i \in 1 .. Len(name) : name[i] = "."
    THEN LET last == CHOOSE i \in 1 .. Len(name) :
                        /\ name[i] = "."
                        /\ \A j \in i + 1 .. Len(name) : name[j] # "."
         IN  SubSeq(name, 1, last - 1)
    ELSE name

\* downloadDir joined with the base name of fileURL without its extension
ExpectedFolder(u) == pathJoin(u.DownloadPath, StripExt(Base(u.FileURL)))

\* UnzipVM has derived its folder and looked for it on disk
FolderDerived == idx >= 1

\* C14: the folder UnzipVM unpacks into is the download directory joined
\* with the base name of the file URL without its last extension, whatever
\* dots the download directory has and also when the base name has no
\* extension; it is never empty; it is made if it is not there and left as
\* it is if it is there.
C14_UnzipFolder ==
    FolderDerived =>
        /\ unzipFolder = ExpectedFolder(uc)
        /\ unzipFolder # <<>>
        /\ pc = "entry" => IsDirectory(fs, unzipFolder)
        /\ Exists(fs0, unzipFolder) =>
              Exists(fs, unzipFolder) /\ fs[unzipFolder] = fs0[unzipFolder]

\* ------------------------------------------ properties: published sum
\* getOrigMd5 read a response whose status is not a success
Md5NotFound == md5Status # 0 /\ md5Status \notin 200 .. 299

\* C15: when the response to the request for the published md5 sum has a
\* status that is not 2xx, getting the sum fails with a network error like
\* a failed request does, and the body of that response is not taken as the
\* expected sum.
C15_OracleStatus ==
    Md5NotFound =>
        /\ failure = "NetworkError"
        /\ pc \in {"panic", "done"}
        /\ origMd5 = <<>>

\* C20: the sum a file is compared with is the published body without the
\* white space around it: when the body is the sum of the file followed by
\* a newline, the comparison succeeds, for a file that was on disk and for
\* one that was downloaded.
C20_TrimmedChecksum ==
    (/\ vmMd5 # <<>>
     /\ md5Status = 200
     /\ TrimSpace(origMd5) = vmMd5) =>
        /\ failure # "IntegrityMismatch"
        /\ pc # "exit"
        /\ "Fetch" \in Range(completed)

\* --------------------------------------------- properties: the archive
\* the archive file passed the comparison of the sums, in this run or in
\* an earlier one
ArchivePassed == history.verified \/ "Fetch" \in Range(completed)

\* C16: once the archive file has passed the comparison of the sums, no
\* step of this run or of a later run removes it, truncates it or writes
\* it again.
C16_ArchiveRetention ==
    [][ArchivePassed =>
          /\ IsFile(fs', VmFile(uc))
          /\ fs'[VmFile(uc)] = fs[VmFile(uc)]]_vars

C16_Witness ==
    /\ runs >= 2
    /\ history.verified
    /\ branch = "old"
    /\ "Import" \in Range(completed)
    /\ touched # {}

\* ------------------------------------------------- properties: VMware
\* C17: when vmrun start is run on a .vmx path, the four network lines
\* have been appended to that file, after the conversion that made it.
C17_NetworkLinesBeforeImport ==
    \A i \in Ran("vmrun start") :
        /\ cmds[i].arg = vmxPath
        /\ RanOk("ovftool convert")
        /\ NetworkFixed

\* C18: importVmwareVM runs vmrun start on the .vmx path and then vmrun
\* stop on the same path; stop is run only after a start that succeeded,
\* and the function returns nil only if both succeeded.
C18_StartThenStop ==
    uc.Hypervisor = "VMware" =>
        /\ Cardinality(Ran("vmrun start")) <= 1
        /\ Cardinality(Ran("vmrun stop")) <= 1
        /\ \A i \in Ran("vmrun start") : cmds[i].arg = vmxPath /\ vmxPath # <<>>
        /\ \A i \in Ran("vmrun stop") :
              /\ i > 1
              /\ cmds[i - 1].cmd = "vmrun start"
              /\ cmds[i - 1].ok
              /\ cmds[i].arg = cmds[i - 1].arg
        /\ (RanOk("vmrun start") /\ pc # "stop") => Ran("vmrun stop") # {}
        /\ "Import" \in Range(completed) <=>
              RanOk("vmrun start") /\ RanOk("vmrun stop")
        /\ (Ran("vmrun start") # {} /\ pc = "done" /\ "Import" \notin Range(completed))
              => failure = "ImportFailed"

C18_Witness ==
    /\ uc.Hypervisor = "VMware"
    /\ pc = "done"
    /\ RanOk("vmrun start")
    /\ RanOk("vmrun stop")
    /\ "Import" \in Range(completed)

\* C19: checkVmware returns nil only if ovftool --version succeeded and the
\* output of vmrun has the version marker; when it has not, checkVmware
\* returns an error whatever the exit status of vmrun is, and ovftool is
\* not run to convert.
C19_VmwareCheck ==
    uc.Hypervisor = "VMware" =>
        /\ failure # "IndexOutOfRange"
        /\ ("Check" \in Range(completed) \/ Ran("ovftool convert") # {}) =>
              /\ RanOk("ovftool --version")
              /\ \E i \in Ran("vmrun") : ContainsMarker(cmds[i].out)
        /\ \A i \in Ran("vmrun") :
              ~ContainsMarker(cmds[i].out) =>
                  /\ ~cmds[i].ok
                  /\ failure = "ToolMissing"

\* --------------------------------------------- properties: resources
\* the resources of the archive entries
EntryHandles == {h \in handles : h.entry # 0}

\* C21: when fetch or extraction ends, in whatever way, every resource it
\* opened has been closed: the file and the response body also when the
\* sums differ; and while an entry of the archive is unpacked no reader or
\* file of an earlier entry is open.
C21_ResourceRelease ==
    /\ pc \in {"done", "exit", "panic"} => handles = {}
    /\ pc \in {"zipOpen", "install"} => handles = {}
    /\ pc = "entry" => EntryHandles = {}

\* ------------------------------------------------ properties: progress
\* how many times msg was printed
Count(msg) == Cardinality({i \in 1 .. Len(shown) : shown[i] = msg})

\* the download has been read to its end, and had the declared size
ReadToEnd == pc = "compare" /\ vmSrc.size > 0 /\ vmSrc.total = vmSrc.size

\* C22: for every size and every way the body comes in chunks, a percentage
\* is printed at least once for every step of progress, and the message
\* that the download finished is printed exactly once, by the read that
\* makes the total the declared size, also when that read goes over a step.
C22_ProgressReporting ==
    /\ vmSrc.total - vmSrc.progress <= DownloadStep
    /\ Count("finished") <= 1
    /\ Count("finished") = 1 => vmSrc.total = vmSrc.size
    /\ ReadToEnd => Count("finished") = 1 /\ shown[Len(shown)] = "finished"

\* ---------------------------------------- properties: unpacked files
\* path is the unzip folder or lies beneath it
Beneath(path, folder) == path = folder \/ HasPrefix(path, folder \o <<"/">>)

\* C23: every file and directory UnzipVM makes lies beneath the unzip
\* folder, whatever the names of the entries are (".." components,
\* absolute paths).
C23_Containment ==
    \A path \in touched \ {VmFile(uc)} : Beneath(path, UnzipFolderOf(uc))

\* C24: a directory entry is made if it is not there and is never a
\* candidate for the entry point, whether or not the directory was on disk
\* before the run; the path UnzipVM returns is no directory.
C24_DirectoryMarkers ==
    /\ \A i \in 1 .. Len(srv.entries) :
          IsDirEntry(srv.entries[i]) =>
              /\ EntryPath(i) \notin Range(collectedPaths)
              /\ (pc = "entry" /\ idx > i) => Exists(fs, EntryPath(i))
    /\ vmPath # <<>> => ~IsDirectory(fs, vmPath)

\* UnzipVM returned a path and no error
UnzipOk == vmPath # <<>> /\ "Extract" \in Range(completed)

\* C26: when UnzipVM returns without error, every file entry of the
\* archive is on disk under the unzip folder with its whole content, also
\* when an earlier run was interrupted while it wrote the entry.
C26_ExtractionComplete ==
    UnzipOk =>
        \A i \in 1 .. Len(srv.entries) :
            ~IsDirEntry(srv.entries[i]) =>
                /\ IsFile(fs, EntryPath(i))
                /\ fs[EntryPath(i)].data = EntryData

\* ----------------------------------------- properties: the download file
\* C25: the download branch opens the destination file only when no file
\* is at that path at the moment of the open; it never truncates a file,
\* one made by another run after this run's os.Stat included.
C25_ExclusiveCreate ==
    [][(pc = "create" /\ pc' = "httpGet") => ~Exists(fs, VmFile(uc))]_vars

\* C27: DownloadVM asks for the published md5 sum before it looks at,
\* creates or writes the destination file; when that request fails the
\* download directory is as it was before the run.
C27_OracleFirst ==
    /\ (pc = "panic" /\ failure = "NetworkError" /\ net = <<"md5">>) =>
          /\ fs = fs0
          /\ touched = {}
          /\ branch = "none"
    /\ (branch # "none" \/ touched # {} \/ fs # fs0) =>
          /\ Len(net) >= 1
          /\ net[1] = "md5"
          /\ md5Status # 0

C27_Witness ==
    /\ pc = "panic"
    /\ failure = "NetworkError"
    /\ net = <<"md5">>
    /\ Exists(fs, VmFile(uc))
    /\ fs[VmFile(uc)].data # <<>>

\* ------------------------------------------------ properties: the probe
\* C28: for every output and exit status of vmrun, checkVmware ends by
\* returning nil or an error; it never indexes a line of the output that
\* is not there.
C28_ProbeTotal ==
    \A i \in Ran("vmrun") :
        /\ pc \in {"convert", "done"} \/ "Check" \in Range(completed)
        /\ ~(pc = "panic" /\ failure = "IndexOutOfRange")

\* ------------------------------------------------ properties: the menus
\* C29: for every choice list that is not empty and every line the user
\* types, SelectOption reads another line or returns an element of the
\* list; the index it uses, typed or given by GetDefaultPlatform,
\* GetDefaultHypervisor, GetDefaultBrowser or GetDefaultDownloadPath, is in
\* 0..len(choices)-1.
C29_MenuBounds ==
    /\ indexed.len > 0 => indexed.idx \in 0 .. indexed.len - 1
    /\ pc = "selectHypervisor" => uc.Platform \in Range(Lookup(platforms, "All"))
    /\ pc = "selectBrowser" =>
          uc.Hypervisor \in Range(Lookup(hypervisors, uc.Platform))
    /\ pc = "resolve" => uc.BrowserOs \in Range(Lookup(browsers, uc.Hypervisor))
    /\ pc = "confirm" =>
          uc.DownloadPath \in Range(Lookup(GetDownloadPaths(host), "All"))

\* C30: every platform, hypervisor and browser that the three menus of
\* ParseJson offer together has an entry in availableVms with a FileURL and
\* an Md5URL that are not empty, so DownloadVM is never called with an
\* empty image.
C30_ResolverComplete ==
    pc # "parseJson" =>
        /\ \A p \in Range(Lookup(platforms, "All")) :
           \A h \in Range(Lookup(hypervisors, p)) :
           \A b \in Range(Lookup(browsers, h)) :
              LET sp == [Platform |-> p, Hypervisor |-> h, BrowserOs |-> b]
              IN  /\ sp \in DOMAIN availableVms
                  /\ availableVms[sp].FileURL # <<>>
                  /\ availableVms[sp].Md5URL # <<>>
        /\ pc \in {"selectPath", "confirm", "getOrigMd5"} =>
              /\ uc.FileURL # <<>>
              /\ uc.Md5URL # <<>>

====
